---- MODULE Spec2Model ----
(***************************************************************************)
(* A model of the SimpleLang recursive-descent syntax checker              *)
(* (src/src/main.rs): the Lexer cursor over a token vector and the Parser  *)
(* productions parse_program, parse_declaration, parse_statement,          *)
(* parse_assignment, parse_if, parse_for and parse_expression.             *)
(*                                                                         *)
(* The call stack of the mutually recursive productions is the variable    *)
(* `stack`: a sequence of program points, the head being the point that    *)
(* executes next and the rest the return points of the callers.  A panic   *)
(* raised by Parser::error is the status "aborted": every action is        *)
(* guarded by status = "running", so nothing executes after it.            *)
(***************************************************************************)
EXTENDS Integers, Sequences, FiniteSets, TLC

VARIABLES tokens, pos, current, line, stack, status, errMsg, errLine

vars == <<tokens, pos, current, line, stack, status, errMsg, errLine>>

(***************************************************************************)
(* Token kinds: enum Token.                                                *)
(***************************************************************************)
TypeKinds == {"Int", "Bool", "String"}

OperatorKinds == {"Plus", "Minus", "Greater", "Less", "And", "Or"}

Token ==
    TypeKinds \cup OperatorKinds \cup
    {"If", "For", "Identifier", "Number", "Boolean", "Assign", "Semicolon",
     "LParen", "RParen", "LBrace", "RBrace", "EOF"}

\* The value of Parser.current and Parser.line before Parser::new has run.
NoToken == "-"

\* No panic has been raised.
NoMsg == ""

(***************************************************************************)
(* Lexer::next: the token it returns and the position it leaves.           *)
(* pos counts the tokens already handed out (the 0-based index of the      *)
(* next one), so the next token is the element pos + 1 of the 1-based      *)
(* sequence.                                                               *)
(***************************************************************************)
\* Fault: the position moves on past the end of the vector.
MutLexerNextPos(ts, p) == p + 1

LexerNextPos(ts, p) == IF p < Len(ts) THEN p + 1 ELSE p

LexerNextToken(ts, p) == IF p < Len(ts) THEN ts[p + 1] ELSE <<"EOF", 0>>

\* Parser::advance: current and line are replaced by the cursor's next token.
Advance ==
    /\ current' = LexerNextToken(tokens, pos)[1]
    /\ line' = LexerNextToken(tokens, pos)[2]
    /\ pos' = LexerNextPos(tokens, pos)
    /\ tokens' = tokens

NoAdvance == UNCHANGED <<tokens, pos, current, line>>

(***************************************************************************)
(* Parser::error: panic with the message and the current line.             *)
(***************************************************************************)
\* Fault: the error is recorded but does not panic.
MutError(msg) ==
    /\ status' = status
    /\ errMsg' = msg
    /\ errLine' = line

Error(msg) ==
    /\ status' = "aborted"
    /\ errMsg' = msg
    /\ errLine' = line

NoError == UNCHANGED <<status, errMsg, errLine>>

\* The statements after a call of error run only when it did not panic.
Panicked == status' = "aborted"

(***************************************************************************)
(* The matches! tests of the productions.                                  *)
(***************************************************************************)
\* Fault: String is not taken for a type keyword.
MutIsTypeKeyword(t) == t \in {"Int", "Bool"}

IsTypeKeyword(t) == t \in {"Int", "Bool", "String"}

\* Fault: the operator loop runs up to a terminator instead of over operators.
MutIsBinaryOperator(t) == t \notin {"Semicolon", "RParen"}

IsBinaryOperator(t) == t \in {"Plus", "Minus", "Greater", "Less", "And", "Or"}

\* Fault: the body loop also exits at EOF.
MutBodyContinues(t) == t \notin {"RBrace", "EOF"}

\* The condition of the body loops of parse_if and parse_for.
BodyContinues(t) == t # "RBrace"

(***************************************************************************)
(* Control: the program point at the head of the stack.                    *)
(***************************************************************************)
At(label) == status = "running" /\ stack # <<>> /\ Head(stack) = label

Goto(label) == stack' = <<label>> \o Tail(stack)

Call(entry, ret) == stack' = <<entry, ret>> \o Tail(stack)

Return == stack' = Tail(stack)

(***************************************************************************)
(* Parser::new: reads the first token.                                     *)
(***************************************************************************)
ParserNew ==
    /\ At("new")
    /\ Advance
    /\ NoError
    /\ Goto("prog_loop")

(***************************************************************************)
(* parse_program: one test of the while condition and the dispatch.        *)
(***************************************************************************)
ParseProgram ==
    /\ At("prog_loop")
    /\ NoAdvance
    /\ IF current = "EOF"
         THEN /\ Return
              /\ status' = "returned"
              /\ UNCHANGED <<errMsg, errLine>>
         ELSE /\ NoError
              /\ IF IsTypeKeyword(current)
                   THEN Call("decl_adv", "prog_loop")
                   ELSE Call("stmt", "prog_loop")

(***************************************************************************)
(* parse_declaration.                                                      *)
(***************************************************************************)
DeclAdvance ==
    /\ At("decl_adv")
    /\ Advance
    /\ NoError
    /\ Goto("decl_id")

\* Fault: the token is consumed before the failure is reported.
MutDeclIdentifier ==
    /\ At("decl_id")
    /\ Advance
    /\ IF current = "Identifier"
         THEN NoError
         ELSE /\ status' = "aborted"
              /\ errMsg' = "Expected identifier in declaration"
              /\ errLine' = line'
    /\ IF Panicked THEN UNCHANGED stack ELSE Goto("decl_semi")

DeclIdentifier ==
    /\ At("decl_id")
    /\ IF current = "Identifier"
         THEN Advance /\ NoError
         ELSE Error("Expected identifier in declaration") /\ NoAdvance
    /\ IF Panicked THEN UNCHANGED stack ELSE Goto("decl_semi")

DeclSemicolon ==
    /\ At("decl_semi")
    /\ IF current = "Semicolon"
         THEN Advance /\ NoError
         ELSE Error("Missing ';' in declaration") /\ NoAdvance
    /\ IF Panicked THEN UNCHANGED stack ELSE Return

(***************************************************************************)
(* parse_statement: the match on current.  The production called is the    *)
(* last thing parse_statement does, so its frame is replaced by the        *)
(* callee's.                                                               *)
(***************************************************************************)
ParseStatement ==
    /\ At("stmt")
    /\ NoAdvance
    /\ IF current \in {"Identifier", "If", "For"}
         THEN NoError
         ELSE Error("Invalid statement")
    /\ IF current = "Identifier" THEN Goto("asg_adv")
       ELSE IF current = "If" THEN Goto("if_adv")
       ELSE IF current = "For" THEN Goto("for_adv")
       ELSE IF Panicked THEN UNCHANGED stack ELSE Return

(***************************************************************************)
(* parse_assignment.                                                       *)
(***************************************************************************)
AsgAdvance ==
    /\ At("asg_adv")
    /\ Advance
    /\ NoError
    /\ Goto("asg_eq")

\* Fault: the token is consumed before the failure is reported.
MutAsgAssign ==
    /\ At("asg_eq")
    /\ Advance
    /\ IF current = "Assign"
         THEN NoError /\ Call("expr_adv", "asg_semi")
         ELSE /\ status' = "aborted"
              /\ errMsg' = "Expected '=' in assignment"
              /\ errLine' = line'
              /\ UNCHANGED stack

AsgAssign ==
    /\ At("asg_eq")
    /\ IF current = "Assign"
         THEN Advance /\ NoError /\ Call("expr_adv", "asg_semi")
         ELSE /\ Error("Expected '=' in assignment")
              /\ NoAdvance
              /\ IF Panicked THEN UNCHANGED stack ELSE Goto("asg_semi")

\* Fault: the closing ';' is optional.
MutAsgSemicolon ==
    /\ At("asg_semi")
    /\ IF current = "Semicolon" THEN Advance ELSE NoAdvance
    /\ NoError
    /\ Return

AsgSemicolon ==
    /\ At("asg_semi")
    /\ IF current = "Semicolon"
         THEN Advance /\ NoError
         ELSE Error("Missing ';' in assignment") /\ NoAdvance
    /\ IF Panicked THEN UNCHANGED stack ELSE Return

(***************************************************************************)
(* parse_if.                                                               *)
(***************************************************************************)
IfAdvance ==
    /\ At("if_adv")
    /\ Advance
    /\ NoError
    /\ Goto("if_lparen")

IfLParen ==
    /\ At("if_lparen")
    /\ IF current # "LParen" THEN Error("Expected '(' after if") ELSE NoError
    /\ IF Panicked
         THEN NoAdvance /\ UNCHANGED stack
         ELSE Advance /\ Call("expr_adv", "if_rparen")

IfRParen ==
    /\ At("if_rparen")
    /\ IF current # "RParen" THEN Error("Expected ')'") ELSE NoError
    /\ IF Panicked
         THEN NoAdvance /\ UNCHANGED stack
         ELSE Advance /\ Goto("if_lbrace")

IfLBrace ==
    /\ At("if_lbrace")
    /\ IF current # "LBrace" THEN Error("Expected '{'") ELSE NoError
    /\ IF Panicked
         THEN NoAdvance /\ UNCHANGED stack
         ELSE Advance /\ Goto("if_body")

IfBody ==
    /\ At("if_body")
    /\ NoError
    /\ IF BodyContinues(current)
         THEN NoAdvance /\ Call("stmt", "if_body")
         ELSE Advance /\ Return

(***************************************************************************)
(* parse_for.                                                              *)
(***************************************************************************)
ForAdvance ==
    /\ At("for_adv")
    /\ Advance
    /\ NoError
    /\ Goto("for_lparen")

ForLParen ==
    /\ At("for_lparen")
    /\ IF current # "LParen" THEN Error("Expected '(' after for") ELSE NoError
    /\ IF Panicked
         THEN NoAdvance /\ UNCHANGED stack
         ELSE Advance /\ Call("decl_adv", "for_cond")

ForCondition ==
    /\ At("for_cond")
    /\ NoAdvance
    /\ NoError
    /\ Call("expr_adv", "for_semi")

ForSemicolon ==
    /\ At("for_semi")
    /\ IF current # "Semicolon" THEN Error("Missing ';' in for") ELSE NoError
    /\ IF Panicked
         THEN NoAdvance /\ UNCHANGED stack
         ELSE Advance /\ Call("asg_adv", "for_rparen")

ForRParen ==
    /\ At("for_rparen")
    /\ IF current # "RParen" THEN Error("Expected ')'") ELSE NoError
    /\ IF Panicked
         THEN NoAdvance /\ UNCHANGED stack
         ELSE Advance /\ Goto("for_lbrace")

ForLBrace ==
    /\ At("for_lbrace")
    /\ IF current # "LBrace" THEN Error("Expected '{'") ELSE NoError
    /\ IF Panicked
         THEN NoAdvance /\ UNCHANGED stack
         ELSE Advance /\ Goto("for_body")

ForBody ==
    /\ At("for_body")
    /\ NoError
    /\ IF BodyContinues(current)
         THEN NoAdvance /\ Call("stmt", "for_body")
         ELSE Advance /\ Return

(***************************************************************************)
(* parse_expression: the operand, then the operator loop.  The two         *)
(* advances of the loop body are two steps, one Lexer::next call each.     *)
(***************************************************************************)
\* Fault: the operand's kind is validated.
MutExprOperand ==
    /\ At("expr_adv")
    /\ IF current \in {"Identifier", "Number", "Boolean"}
         THEN Advance /\ NoError
         ELSE Error("Expected operand") /\ NoAdvance
    /\ IF Panicked THEN UNCHANGED stack ELSE Goto("expr_loop")

ExprOperand ==
    /\ At("expr_adv")
    /\ Advance
    /\ NoError
    /\ Goto("expr_loop")

ExprLoop ==
    /\ At("expr_loop")
    /\ NoError
    /\ IF IsBinaryOperator(current)
         THEN Advance /\ Goto("expr_adv")
         ELSE NoAdvance /\ Return

(***************************************************************************)
(* The inputs: the token vectors handed to Lexer::new.  Token i carries    *)
(* line i, so that the line of a report names the token it is about.       *)
(***************************************************************************)
WithLines(ks) == [i \in 1..Len(ks) |-> <<ks[i], i>>]

KindsOf(ts) == [i \in 1..Len(ts) |-> ts[i][1]]

\* Longest vector of arbitrary kinds.
MaxLen == 3

\* Most declarations and statements (nested ones included) of a generated
\* program.
MaxNodes == 3

\* Most operators of a generated expression.
MaxOps == 1

\* Every vector of at most MaxLen tokens, of any kinds.
ShortInputs == UNION {[1..n -> Token] : n \in 0..MaxLen}

(***************************************************************************)
(* The grammar of the language, as shapes: "T" stands for a type keyword,  *)
(* "C" for the expression of a condition and "E" for the expression of an  *)
(* assignment.                                                             *)
(*   program     = {declaration | statement} EOF                           *)
(*   declaration = T identifier ';'                                        *)
(*   statement   = assignment | if | for                                   *)
(*   assignment  = identifier '=' E ';'                                    *)
(*   if          = 'if' '(' C ')' '{' {statement} '}'                      *)
(*   for         = 'for' '(' declaration C ';' assignment ')'              *)
(*                 '{' {statement} '}'                                     *)
(***************************************************************************)
DeclShape == <<"T", "Identifier", "Semicolon">>

AsgShape == <<"Identifier", "Assign", "E", "Semicolon">>

IfHead == <<"If", "LParen", "C", "RParen", "LBrace">>

ForHead ==
    <<"For", "LParen">> \o DeclShape \o <<"C", "Semicolon">> \o AsgShape
        \o <<"RParen", "LBrace">>

\* The for header written the C way, the increment not closed by ';'.
ForHeadC ==
    <<"For", "LParen">> \o DeclShape \o <<"C", "Semicolon">>
        \o <<"Identifier", "Assign", "E">> \o <<"RParen", "LBrace">>

RECURSIVE StmtShapes(_), BodyShapes(_), ItemShapes(_)

\* The statements of exactly n nodes.
StmtShapes(n) ==
    IF n = 0 THEN {}
    ELSE (IF n = 1 THEN {AsgShape} ELSE {}) \cup
         {h \o b \o <<"RBrace">> : h \in {IfHead, ForHead}, b \in BodyShapes(n - 1)}

\* The statement lists of exactly n nodes.
BodyShapes(n) ==
    IF n = 0 THEN {<<>>}
    ELSE UNION {{s \o b : s \in StmtShapes(k), b \in BodyShapes(n - k)} : k \in 1..n}

\* The lists of declarations and statements of exactly n nodes.
ItemShapes(n) ==
    IF n = 0 THEN {<<>>}
    ELSE UNION {{s \o r : s \in StmtShapes(k) \cup (IF k = 1 THEN {DeclShape} ELSE {}),
                          r \in ItemShapes(n - k)} : k \in 1..n}

ProgramShapes == {s \o <<"EOF">> : s \in UNION {ItemShapes(n) : n \in 0..MaxNodes}}

RECURSIVE UnclosedShapes(_, _)

\* A construct of at most n nodes whose innermost open body, opened by a head
\* of `heads`, holds complete statements and is never closed.
UnclosedShapes(n, heads) ==
    IF n = 0 THEN {}
    ELSE UNION {{h \o b : h \in heads, b \in BodyShapes(k)} \cup
                {h \o b \o u : h \in {IfHead, ForHead}, b \in BodyShapes(k),
                               u \in UnclosedShapes(n - 1 - k, heads)}
                : k \in 0..(n - 1)}

\* The end of input: the vector's EOF token, or the vector running out.
EndOfInput == {<<"EOF">>, <<>>}

UnclosedIfShapes == {u \o e : u \in UnclosedShapes(MaxNodes, {IfHead}), e \in EndOfInput}

UnclosedForShapes == {u \o e : u \in UnclosedShapes(MaxNodes, {ForHead}), e \in EndOfInput}

(***************************************************************************)
(* The kinds that fill a shape: a type keyword for its "T" and two         *)
(*   expression = operand {operator operand}                               *)
(* for its "C" and its "E".  Over the palettes every type keyword, operand *)
(* kind and operator occurs, and both places hold expressions of 0 to      *)
(* MaxOps operators.                                                       *)
(***************************************************************************)
TypeSeq == <<"Int", "Bool", "String">>

OperandSeq == <<"Identifier", "Number", "Boolean">>

OperatorSeq == <<"Plus", "Minus", "Greater", "Less", "And", "Or">>

RECURSIVE Chain(_, _, _, _)

Chain(a, op, b, k) == IF k = 0 THEN <<a>> ELSE Chain(a, op, b, k - 1) \o <<op, b>>

Palettes ==
    {[ty |-> TypeSeq[(i % 3) + 1],
      c  |-> Chain(OperandSeq[(i % 3) + 1], OperatorSeq[i],
                   OperandSeq[((i + 1) % 3) + 1], MaxOps - (i % (MaxOps + 1))),
      e  |-> Chain(OperandSeq[((i + 1) % 3) + 1], OperatorSeq[i],
                   OperandSeq[(i % 3) + 1], i % (MaxOps + 1))]
        : i \in 1..Len(OperatorSeq)}

RECURSIVE Fill(_, _)

Fill(shape, p) ==
    IF shape = <<>> THEN <<>>
    ELSE (IF Head(shape) = "T" THEN <<p.ty>>
          ELSE IF Head(shape) = "C" THEN p.c
          ELSE IF Head(shape) = "E" THEN p.e
          ELSE <<Head(shape)>>) \o Fill(Tail(shape), p)

Filled(shapes) == {Fill(s, p) : s \in shapes, p \in Palettes}

\* The token sequences derived from the grammar.
Programs == Filled(ProgramShapes)

UnclosedIf == Filled(UnclosedIfShapes)

UnclosedFor == Filled(UnclosedForShapes)

Unclosed == UnclosedIf \cup UnclosedFor

CStyleFor == Filled({ForHeadC \o b \o <<"RBrace", "EOF">> : b \in BodyShapes(0) \cup BodyShapes(1)})

Prefixes(S) == UNION {{SubSeq(s, 1, n) : n \in 0..Len(s)} : s \in S}

\* An assignment whose expression has any token as an operand.
AssignAny ==
    {<<"Identifier", "Assign", x, "Semicolon">> \o e : x \in Token, e \in EndOfInput} \cup
    {<<"Identifier", "Assign", x, op, y, "Semicolon", "EOF">> :
        x \in Token, op \in OperatorKinds, y \in Token}

\* One declaration or statement with one token replaced by any token.
SingleItems ==
    Filled({DeclShape, AsgShape,
            IfHead \o AsgShape \o <<"RBrace">>,
            ForHead \o AsgShape \o <<"RBrace">>})

Substituted ==
    UNION {{[s EXCEPT ![i] = x] \o <<"EOF">> : i \in 1..Len(s), x \in Token} : s \in SingleItems}

Inputs ==
    ShortInputs \cup Programs \cup Prefixes(SingleItems) \cup UnclosedIf \cup UnclosedFor
        \cup CStyleFor \cup AssignAny \cup Substituted

(***************************************************************************)
(* The state after Lexer::new; Parser::new is the first step.              *)
(***************************************************************************)
Init ==
    /\ tokens \in {WithLines(ks) : ks \in Inputs}
    /\ pos = 0
    /\ current = NoToken
    /\ line = 0
    /\ stack = <<"new">>
    /\ status = "running"
    /\ errMsg = NoMsg
    /\ errLine = 0

Next ==
    \/ ParserNew
    \/ ParseProgram
    \/ DeclAdvance
    \/ DeclIdentifier
    \/ DeclSemicolon
    \/ ParseStatement
    \/ AsgAdvance
    \/ AsgAssign
    \/ AsgSemicolon
    \/ IfAdvance
    \/ IfLParen
    \/ IfRParen
    \/ IfLBrace
    \/ IfBody
    \/ ForAdvance
    \/ ForLParen
    \/ ForCondition
    \/ ForSemicolon
    \/ ForRParen
    \/ ForLBrace
    \/ ForBody
    \/ ExprOperand
    \/ ExprLoop

Spec == Init /\ [][Next]_vars

\* The productions are straight-line code: a step that can be taken is taken.
FairSpec == Spec /\ WF_vars(Next)

(***************************************************************************)
(* The properties.                                                         *)
(***************************************************************************)
Finished == status # "running"

IsPrefix(h, ks) == Len(h) <= Len(ks) /\ SubSeq(ks, 1, Len(h)) = h

\* The line of the token that ends the input: the EOF token's, or the 0 of
\* the token Lexer::next makes up when the vector has run out.
EndLine(ts) ==
    IF ts # <<>> /\ ts[Len(ts)][1] = "EOF" THEN ts[Len(ts)][2] ELSE 0

\* C1: a token sequence derived from the grammar, the empty program included,
\* never raises an error, and parse_program returns having read all of it.
C1_GrammarAccepted ==
    KindsOf(tokens) \in Programs =>
        /\ status # "aborted"
        /\ errMsg = NoMsg
        /\ (stack = <<>> => status = "returned" /\ pos = Len(tokens))

C1_Witness ==
    /\ KindsOf(tokens) \in Programs
    /\ status = "returned"
    /\ \E i \in 1..Len(tokens) : tokens[i][1] = "For"
    /\ \E i \in 1..Len(tokens) : tokens[i][1] = "If"

\* C2 as stated: an if or for body that runs to the end of input without its
\* closing brace is accepted, parse_program returning normally.
C2_UnclosedBodyAccepted ==
    (KindsOf(tokens) \in Unclosed /\ Finished) => status = "returned"

\* C2 as amended: at the end of input the body loop of an if or for does not
\* exit but calls parse_statement, which aborts with "Invalid statement" at
\* the line of the EOF token (0 when the vector ran out), so the input whose
\* body runs to the end of input without a closing brace is rejected.
C2_UnclosedBodyInvalidStatement ==
    [][/\ ((At("if_body") \/ At("for_body")) /\ current = "EOF") =>
            /\ stack' = <<"stmt">> \o stack
            /\ status' = "running"
            /\ UNCHANGED <<pos, current, line>>
       /\ (At("stmt") /\ current = "EOF") =>
            /\ status' = "aborted"
            /\ errMsg' = "Invalid statement"
            /\ errLine' = line
            /\ UNCHANGED <<pos, current, line>>
       /\ (KindsOf(tokens) \in Unclosed /\ status' # "running") =>
            /\ status' = "aborted"
            /\ errMsg' = "Invalid statement"
            /\ errLine' = EndLine(tokens)
      ]_vars

C2_Witness ==
    /\ KindsOf(tokens) \in UnclosedFor
    /\ status = "aborted"
    /\ errMsg = "Invalid statement"
    /\ current = "EOF"
    /\ Head(stack) = "stmt"

\* C3: an if header followed by complete statements and then the end of
\* input (an EOF token, or the vector running out) in place of the closing
\* brace is never accepted.
C3_UnclosedIfRejected ==
    KindsOf(tokens) \in UnclosedIf => status # "returned"

C3_Witness ==
    /\ KindsOf(tokens) \in UnclosedIf
    /\ status = "aborted"
    /\ pos = Len(tokens)
    /\ errLine = 0
    /\ \E i \in 1..Len(tokens) : tokens[i][1] = "Assign"

\* C4: a declaration whose second token is not an identifier aborts with
\* "Expected identifier in declaration" at the line of that second token,
\* entered from parse_program on a type keyword or as the init clause of a
\* for header.
C4_DeclarationNeedsIdentifier ==
    [][/\ (At("decl_adv") /\ pos < Len(tokens)) =>
            /\ current' = tokens[pos + 1][1]
            /\ line' = tokens[pos + 1][2]
            /\ Head(stack') = "decl_id"
       /\ (At("decl_id") /\ current # "Identifier") =>
            /\ status' = "aborted"
            /\ errMsg' = "Expected identifier in declaration"
            /\ errLine' = line
       /\ (/\ Len(tokens) >= 2
           /\ tokens[1][1] \in TypeKinds
           /\ tokens[2][1] # "Identifier"
           /\ status' # "running") =>
            /\ status' = "aborted"
            /\ errMsg' = "Expected identifier in declaration"
            /\ errLine' = tokens[2][2]
       /\ (/\ Len(tokens) >= 4
           /\ tokens[1][1] = "For"
           /\ tokens[2][1] = "LParen"
           /\ tokens[4][1] # "Identifier"
           /\ status' # "running") =>
            /\ status' = "aborted"
            /\ errMsg' = "Expected identifier in declaration"
            /\ errLine' = tokens[4][2]
      ]_vars

C4_Witness ==
    /\ status = "aborted"
    /\ errMsg = "Expected identifier in declaration"
    /\ Len(stack) >= 2
    /\ stack[2] = "for_cond"
    /\ current = "Semicolon"
    /\ errLine = 4

\* The required-token checks: the program point, the kind required there and
\* the message of the failure.
RequiredTokens ==
    {<<"decl_id", "Identifier", "Expected identifier in declaration">>,
     <<"decl_semi", "Semicolon", "Missing ';' in declaration">>,
     <<"asg_eq", "Assign", "Expected '=' in assignment">>,
     <<"asg_semi", "Semicolon", "Missing ';' in assignment">>,
     <<"if_lparen", "LParen", "Expected '(' after if">>,
     <<"if_rparen", "RParen", "Expected ')'">>,
     <<"if_lbrace", "LBrace", "Expected '{'">>,
     <<"for_lparen", "LParen", "Expected '(' after for">>,
     <<"for_semi", "Semicolon", "Missing ';' in for">>,
     <<"for_rparen", "RParen", "Expected ')'">>,
     <<"for_lbrace", "LBrace", "Expected '{'">>}

\* The current token is the last one read from the vector, or the EOF made
\* up after its end.
CurrentIsLastRead ==
    IF line = 0
      THEN current \in {"EOF", NoToken} /\ (current = "EOF" => pos = Len(tokens))
      ELSE pos >= 1 /\ <<current, line>> = tokens[pos]

\* C5: at every required-token check a current token of another kind aborts
\* the parse with the check's message and the line of that token, which is
\* not consumed; an identifier not followed by '=' and a for not followed by
\* '(' report the line of the token that follows them.
C5_RequiredTokenChecks ==
    [][/\ \A c \in RequiredTokens :
            (At(c[1]) /\ current # c[2]) =>
                /\ status' = "aborted"
                /\ errMsg' = c[3]
                /\ errLine' = line
                /\ UNCHANGED <<pos, current, line>>
       /\ CurrentIsLastRead'
       /\ (/\ Len(tokens) >= 2
           /\ tokens[1][1] = "Identifier"
           /\ tokens[2][1] # "Assign"
           /\ status' # "running") =>
            /\ status' = "aborted"
            /\ errMsg' = "Expected '=' in assignment"
            /\ errLine' = tokens[2][2]
       /\ (/\ Len(tokens) >= 2
           /\ tokens[1][1] = "For"
           /\ tokens[2][1] # "LParen"
           /\ status' # "running") =>
            /\ status' = "aborted"
            /\ errMsg' = "Expected '(' after for"
            /\ errLine' = tokens[2][2]
      ]_vars

C5_Witness ==
    /\ status = "aborted"
    /\ errMsg = "Expected '(' after for"
    /\ errLine = 2
    /\ current = "Int"
    /\ pos = 2

\* C6: every parse ends, by parse_program returning with the current token
\* EOF or by an abort.
C6_Terminates ==
    <>(status = "aborted" \/ (status = "returned" /\ current = "EOF"))

C6_Witness ==
    /\ status = "returned"
    /\ pos = Len(tokens)
    /\ Len(tokens) > 0
    /\ \A i \in 1..Len(tokens) : tokens[i][1] # "EOF"
    /\ \E i \in 1..Len(tokens) : tokens[i][1] = "LBrace"

\* C7: a step is taken only while no error has been raised; the step that
\* raises one aborts the parse and leaves the cursor, the current token and
\* the line as they are.
C7_AbortIsFinal ==
    [][/\ errMsg = NoMsg
       /\ status = "running"
       /\ (errMsg' # NoMsg) =>
            /\ status' = "aborted"
            /\ errLine' = line
            /\ UNCHANGED <<pos, current, line, stack>>
       /\ (status' = "aborted") => errMsg' # NoMsg
      ]_vars

C7_Witness ==
    /\ status = "aborted"
    /\ errMsg = "Expected identifier in declaration"
    /\ current # "Semicolon"
    /\ Head(stack) = "decl_id"

\* C8: the position stays within 0..length of the vector; a step reads
\* nothing, or reads tokens[pos] and moves the position by one, or, at the
\* end of the vector, reads an EOF of line 0 and leaves the position; the
\* vector never changes and a read raises no error.
C8_CursorBounds ==
    [][/\ pos \in 0..Len(tokens)
       /\ pos' \in 0..Len(tokens)
       /\ tokens' = tokens
       /\ \/ UNCHANGED <<pos, current, line>>
          \/ /\ pos < Len(tokens)
             /\ pos' = pos + 1
             /\ <<current', line'>> = tokens[pos + 1]
             /\ UNCHANGED <<status, errMsg, errLine>>
          \/ /\ pos = Len(tokens)
             /\ pos' = pos
             /\ <<current', line'>> = <<"EOF", 0>>
             /\ UNCHANGED <<status, errMsg, errLine>>
      ]_vars

C8_Witness ==
    /\ At("expr_loop")
    /\ Len(tokens) = 2
    /\ pos = 2
    /\ current = "EOF"
    /\ line = 0

\* The for header up to its ')', the increment closed by ';' and not.
ForHeaders == {Fill(SubSeq(ForHead, 1, Len(ForHead) - 1), p) : p \in Palettes}

ForHeadersC == {Fill(SubSeq(ForHeadC, 1, Len(ForHeadC) - 1), p) : p \in Palettes}

\* C9: a for header whose increment is followed directly by ')' aborts with
\* "Missing ';' in assignment" at the line of that ')'; with ';' before the
\* ')' no check of the header fails and the '{' check is reached.
C9_ForIncrementTakesSemicolon ==
    Finished =>
        /\ \A h \in ForHeadersC :
              IsPrefix(h, KindsOf(tokens)) =>
                /\ status = "aborted"
                /\ errMsg = "Missing ';' in assignment"
                /\ errLine = tokens[Len(h)][2]
                /\ current = "RParen"
        /\ \A h \in ForHeaders :
              (IsPrefix(h, KindsOf(tokens)) /\ status = "aborted" /\ pos <= Len(h)) =>
                /\ Head(stack) = "for_lbrace"
                /\ pos = Len(tokens)

C9_Witness ==
    /\ status = "aborted"
    /\ errMsg = "Missing ';' in assignment"
    /\ current = "RParen"
    /\ Len(stack) >= 2
    /\ stack[2] = "for_rparen"
    /\ \E h \in ForHeadersC : IsPrefix(h, KindsOf(tokens))

\* C10: parse_expression raises no error: it reads past its operand whatever
\* the kind, then past an operator and the token after it while the current
\* token is one of + - > < && ||, and returns at the first other token; an
\* assignment with any tokens as operands, identifier = ; ; among them, is
\* accepted.
C10_ExpressionNeverAborts ==
    [][/\ (At("expr_adv") \/ At("expr_loop")) =>
            /\ status' = "running"
            /\ errMsg' = NoMsg
       /\ At("expr_adv") =>
            /\ pos' = IF pos < Len(tokens) THEN pos + 1 ELSE pos
            /\ stack' = <<"expr_loop">> \o Tail(stack)
       /\ (At("expr_loop") /\ current \in OperatorKinds) =>
            /\ pos' = IF pos < Len(tokens) THEN pos + 1 ELSE pos
            /\ stack' = <<"expr_adv">> \o Tail(stack)
       /\ (At("expr_loop") /\ current \notin OperatorKinds) =>
            /\ stack' = Tail(stack)
            /\ UNCHANGED <<pos, current, line>>
       /\ (KindsOf(tokens) \in AssignAny /\ status' # "running") =>
            /\ status' = "returned"
            /\ pos' = Len(tokens)
      ]_vars

C10_Witness ==
    /\ KindsOf(tokens) = <<"Identifier", "Assign", "Semicolon", "Semicolon">>
    /\ status = "returned"

====
